---- MODULE Spec2Model ----
(***************************************************************************)
(* Model of tools/build_urls.py: the sitemap index selector                *)
(* (pick_child_sitemaps), the child extractor                              *)
(* (extract_urls_from_child_sitemap), the aggregator (build_urls) and the  *)
(* output step of main.                                                    *)
(*                                                                         *)
(* Text is a sequence of one-character strings, so that strip() and the    *)
(* "/n/" substring test are computed.  A timestamp is a record             *)
(* [kind, t]: kind "none" is Python's None, "aware" a datetime with a UTC  *)
(* offset (t = its UTC instant in hours), "naive" a datetime without one.  *)
(***************************************************************************)
EXTENDS Integers, Sequences, FiniteSets, TLC

\* ------------------------------------------------------------------ bounds
\* longest sitemap index document of a whole run (Spec)
MaxIndex == 2
\* longest child sitemap document
MaxChildLen == 2
\* longest entry list handed to pick_child_sitemaps on its own (SpecPick)
MaxPickLen == 4

\* ------------------------------------------------------------ input domains
MaxChildrenRange == {-1, 0, 1, 2}
MaxUrlsRange == {0, 1, 2}
MinUrlsRange == {0, 1, 2}
WithinHoursRange == {1}
NowRange == {3}

UrlA == <<"/", "n", "/", "a">>
UrlB == <<"/", "n", "/", "b">>
UrlBPadded == <<" ", "/", "n", "/", "b">>
UrlAbout == <<"/", "n", "a">>
Blank == <<" ">>
Child1 == <<"c", "1">>
Child2 == <<"c", "2">>

\* what find() gives for an element: absent, or present with its text
Absent == [present |-> FALSE, text |-> <<>>]
Elem(t) == [present |-> TRUE, text |-> t]

\* the text of a <lastmod> element, by the shape fromisoformat sees
NoStamp == [fmt |-> "absent", hour |-> 0]
BadStamp == [fmt |-> "garbage", hour |-> 0]
DateStamp(h) == [fmt |-> "local", hour |-> h]
UtcStamp(h) == [fmt |-> "utc", hour |-> h]

NoTime == [kind |-> "none", t |-> 0]
Aware(h) == [kind |-> "aware", t |-> h]
Naive(h) == [kind |-> "naive", t |-> h]

SeqsUpTo(S, n) == UNION {[1..k -> S] : k \in 0..n}
Range(s) == {s[k] : k \in 1..Len(s)}

\* ------------------------------------------------------------------ helpers
RECURSIVE LStrip(_)
LStrip(s) == IF s # <<>> /\ Head(s) = " " THEN LStrip(Tail(s)) ELSE s

RECURSIVE RStrip(_)
RStrip(s) ==
  IF s # <<>> /\ s[Len(s)] = " " THEN RStrip(SubSeq(s, 1, Len(s) - 1)) ELSE s

\* find_text: None when the element or its text is missing, else text.strip().
\* None and "" are both falsy and are told apart by nothing downstream, so both
\* are the empty text here.
find_text(e) == IF e.present THEN RStrip(LStrip(e.text)) ELSE <<>>

\* parse_iso8601 applied to the text of a <lastmod> element
parse_iso8601(s) ==
  CASE s.fmt = "absent" -> NoTime
    [] s.fmt = "garbage" -> NoTime
    [] s.fmt = "local" -> Naive(s.hour)
    [] s.fmt = "utc" -> Aware(s.hour)

\* "/n/" in loc
HasMarker(loc) ==
  \E k \in 1..(Len(loc) - 2) : SubSeq(loc, k, k + 2) = <<"/", "n", "/">>

\* Python's s[:k]
Slice(s, k) ==
  IF k >= 0
    THEN SubSeq(s, 1, IF k < Len(s) THEN k ELSE Len(s))
    ELSE SubSeq(s, 1, IF Len(s) + k > 0 THEN Len(s) + k ELSE 0)

\* ------------------------------------------------------- load_sitemap_index
\* the entries of a parsed index document: nodes without a location are
\* skipped, the others keep their location and their parsed lastmod
RECURSIVE load_sitemap_index(_)
load_sitemap_index(nodes) ==
  IF nodes = <<>> THEN <<>>
  ELSE LET loc == find_text(Head(nodes).loc)
           rest == load_sitemap_index(Tail(nodes))
       IN IF loc = <<>> THEN rest
          ELSE <<[loc |-> loc, lastmod |-> parse_iso8601(Head(nodes).lastmod)]>>
                 \o rest

\* ------------------------------------------------------- pick_child_sitemaps
\* An entry is named by its position in index_entries (the identity of the
\* dict object in the source).
RECURSIVE Positions(_, _, _)
Positions(entries, k, timed) ==
  IF k > Len(entries) THEN <<>>
  ELSE (IF (entries[k].lastmod.kind # "none") = timed THEN <<k>> ELSE <<>>)
         \o Positions(entries, k + 1, timed)

sortable(entries) == Positions(entries, 1, TRUE)
no_time(entries) == Positions(entries, 1, FALSE)

\* list.sort has to compare a naive with an aware datetime as soon as the list
\* holds both, and that comparison raises TypeError
SortRaises(entries) ==
  \E p, q \in Range(sortable(entries)) :
    entries[p].lastmod.kind = "naive" /\ entries[q].lastmod.kind = "aware"

\* p goes after every element whose key is not smaller than its own
RECURSIVE InsertDesc(_, _, _)
InsertDesc(sorted, p, entries) ==
  IF sorted = <<>> THEN <<p>>
  ELSE IF entries[Head(sorted)].lastmod.t >= entries[p].lastmod.t
         THEN <<Head(sorted)>> \o InsertDesc(Tail(sorted), p, entries)
         ELSE <<p>> \o sorted

\* sortable.sort(key=lastmod, reverse=True): stable, most recent first
RECURSIVE SortDescending(_, _)
SortDescending(ps, entries) ==
  IF ps = <<>> THEN <<>>
  ELSE InsertDesc(SortDescending(SubSeq(ps, 1, Len(ps) - 1), entries),
                  ps[Len(ps)], entries)

ordered(entries) ==
  SortDescending(sortable(entries), entries) \o no_time(entries)

top(entries, max_ch) == Slice(ordered(entries), max_ch * 2)

\* every order rng.shuffle can leave a list in; which one a seed gives is the
\* generator's business, so the seed is a free choice among them
Shuffles(s) ==
  {p \in [1..Len(s) -> Range(s)] : \A a, b \in 1..Len(s) : p[a] = p[b] => a = b}

\* the lists `selected` can be, as positions
pick_selected(entries, max_ch) ==
  IF entries = <<>> THEN {<<>>}
  ELSE {Slice(p, max_ch) : p \in Shuffles(top(entries, max_ch))}

\* the returned locations; every loc is a string, so the isinstance filter of
\* the return statement keeps every item
LocsOf(entries, sel) == [k \in 1..Len(sel) |-> entries[sel[k]].loc]

\* ------------------------------------------- extract_urls_from_child_sitemap
\* the filter on a location: `not loc or "/n/" not in loc` drops it
KeptWithoutMarker(loc) == loc # <<>>

Kept(loc) == loc # <<>> /\ HasMarker(loc)

\* The loop over the <url> nodes from node k on, with the two local lists so
\* far.  ok = FALSE is an exception leaving the function: now is aware, and
\* subtracting a naive lastmod from it raises TypeError.
RECURSIVE ExtractFrom(_, _, _, _, _, _)
ExtractFrom(nodes, k, pri, fb, t_now, within) ==
  IF k > Len(nodes) THEN [ok |-> TRUE, pri |-> pri, fb |-> fb]
  ELSE LET loc == find_text(nodes[k].loc)
           lastmod == parse_iso8601(nodes[k].lastmod)
       IN IF ~Kept(loc)
            THEN ExtractFrom(nodes, k + 1, pri, fb, t_now, within)
          ELSE IF lastmod.kind = "none"
            THEN ExtractFrom(nodes, k + 1, pri, Append(fb, loc), t_now, within)
          ELSE IF lastmod.kind = "naive"
            THEN [ok |-> FALSE, pri |-> pri, fb |-> fb]
          ELSE IF t_now - lastmod.t <= within
            THEN ExtractFrom(nodes, k + 1, Append(pri, loc), fb, t_now, within)
          ELSE ExtractFrom(nodes, k + 1, pri, Append(fb, loc), t_now, within)

\* a document is [status, nodes]; status "error" is fetch_bytes, maybe_gunzip
\* or parse_xml_bytes raising before the loop starts
extract_urls_from_child_sitemap(doc, t_now, within) ==
  IF doc.status = "error" THEN [ok |-> FALSE, pri |-> <<>>, fb |-> <<>>]
  ELSE ExtractFrom(doc.nodes, 1, <<>>, <<>>, t_now, within)

\* ---------------------------------------------------------------- build_urls
\* what one pass of the try block adds to the two accumulators: the extend
\* calls run only when the extraction returned
ContributionPartial(r) == <<r.pri, r.fb>>

Contribution(r) == IF r.ok THEN <<r.pri, r.fb>> ELSE <<<<>>, <<>>>>

mergedReversed(pri, fb) == fb \o pri

merged(pri, fb) == pri \o fb

\* the dedup loop from item k on
RECURSIVE DedupFrom(_, _, _, _)
DedupFrom(items, k, acc, limit) ==
  IF k > Len(items) THEN acc
  ELSE IF items[k] \in Range(acc) THEN DedupFrom(items, k + 1, acc, limit)
  ELSE IF Len(acc) + 1 >= limit THEN Append(acc, items[k])
  ELSE DedupFrom(items, k + 1, Append(acc, items[k]), limit)

RECURSIVE DedupFromNoSeen(_, _, _, _)
DedupFromNoSeen(items, k, acc, limit) ==
  IF k > Len(items) THEN acc
  ELSE IF Len(acc) + 1 >= limit THEN Append(acc, items[k])
  ELSE DedupFromNoSeen(items, k + 1, Append(acc, items[k]), limit)

dedupedNoSeen(items, limit) == DedupFromNoSeen(items, 1, <<>>, limit)

deduped(items, limit) == DedupFrom(items, 1, <<>>, limit)

\* the early-stop test after a successful child
EnoughByLength(pri, min_u) == Len(pri) >= min_u

Enough(pri, min_u) == Cardinality(Range(pri)) >= min_u

\* where the for loop stands after the child at position k was tried
AfterChildRetry(k, ok) == IF ok THEN k ELSE k - 1

AfterChild(k, ok) == k

\* ------------------------------------------------------------ the documents
\* index nodes of a whole run: without a location, and with one and a lastmod
\* that is absent, aware or naive (orderings are exercised under SpecPick)
IndexNodes ==
  {[loc |-> Absent, lastmod |-> UtcStamp(2)],
   [loc |-> Elem(Blank), lastmod |-> NoStamp],
   [loc |-> Elem(Child1), lastmod |-> UtcStamp(2)],
   [loc |-> Elem(Child2), lastmod |-> NoStamp],
   [loc |-> Elem(Child2), lastmod |-> DateStamp(1)]}
IndexDocs ==
  {[status |-> "error", nodes |-> <<>>]}
    \cup {[status |-> "ok", nodes |-> n] : n \in SeqsUpTo(IndexNodes, MaxIndex)}

UrlLocs == {Absent, Elem(UrlA), Elem(UrlBPadded), Elem(UrlB), Elem(UrlAbout)}
UrlStamps == {NoStamp, BadStamp, DateStamp(2), UtcStamp(1), UtcStamp(2)}
UrlNodes == [loc : UrlLocs, lastmod : UrlStamps]
ChildDocs ==
  {[status |-> "error", nodes |-> <<>>]}
    \cup {[status |-> "ok", nodes |-> n] : n \in SeqsUpTo(UrlNodes, MaxChildLen)}

\* what extract_urls_from_child_sitemap can come back with: every
\* [now, within, result] over the child documents
ChildResults ==
  {[now |-> n, within |-> w, result |-> extract_urls_from_child_sitemap(d, n, w)] :
     n \in NowRange, w \in WithinHoursRange, d \in ChildDocs}

\* -------------------------------------------------------------------- state
VARIABLES
  pc,                \* "start", "loop", "merge", "returned", "exit", "failed"
  error,             \* the exception that ended the run, or "none"
  max_children, max_urls, min_urls, within_hours, now,
  index_entries,     \* load_sitemap_index's result
  selected,          \* pick_child_sitemaps: the chosen entries, as positions
  child_sitemaps,    \* pick_child_sitemaps: the returned locations
  i,                 \* children the for loop has taken so far
  prioritized_urls, fallback_urls,
  urls,              \* payload["urls"] once build_urls has returned
  written,           \* main has written the output file
  fetch_log,         \* positions of child_sitemaps handed to fetch, in call order
  ok_log             \* for each such call, whether the extraction returned

vars == <<pc, error, max_children, max_urls, min_urls, within_hours, now,
          index_entries, selected, child_sitemaps, i, prioritized_urls,
          fallback_urls, urls, written, fetch_log, ok_log>>

config == <<max_children, max_urls, min_urls, within_hours, now>>
picked == <<index_entries, selected, child_sitemaps>>
loopvars == <<i, prioritized_urls, fallback_urls, fetch_log, ok_log>>

Blanks ==
  /\ error = "none"
  /\ selected = <<>> /\ child_sitemaps = <<>>
  /\ i = 0 /\ prioritized_urls = <<>> /\ fallback_urls = <<>>
  /\ urls = <<>> /\ written = FALSE
  /\ fetch_log = <<>> /\ ok_log = <<>>

Init ==
  /\ pc = "start"
  /\ max_children \in MaxChildrenRange
  /\ max_urls \in MaxUrlsRange
  /\ min_urls \in MinUrlsRange
  /\ within_hours \in WithinHoursRange
  /\ now \in NowRange
  /\ index_entries = <<>>
  /\ Blanks

\* build_urls up to the loop: load the index, pick the children, fail on none
Start ==
  /\ pc = "start"
  /\ \E doc \in IndexDocs :
       IF doc.status = "error"
         THEN /\ pc' = "failed" /\ error' = "IndexError"
              /\ UNCHANGED picked
       ELSE LET entries == load_sitemap_index(doc.nodes) IN
         IF entries # <<>> /\ SortRaises(entries)
           THEN /\ pc' = "failed" /\ error' = "TypeError"
                /\ index_entries' = entries
                /\ UNCHANGED <<selected, child_sitemaps>>
         ELSE \E sel \in pick_selected(entries, max_children) :
                /\ index_entries' = entries
                /\ selected' = sel
                /\ child_sitemaps' = LocsOf(entries, sel)
                /\ IF sel = <<>>
                     THEN pc' = "failed" /\ error' = "NoChildSitemaps"
                     ELSE pc' = "loop" /\ error' = "none"
  /\ UNCHANGED <<config, loopvars, urls, written>>

\* one pass of the for loop: fetch and extract the next child, extend the
\* accumulators, test the early stop; a failure skips the child
FetchChild ==
  /\ pc = "loop"
  /\ i < Len(child_sitemaps)
  /\ \E x \in ChildResults :
       LET r == x.result
           c == Contribution(r)
           pri == prioritized_urls \o c[1]
           k == AfterChild(i + 1, r.ok)
       IN /\ x.now = now /\ x.within = within_hours
          /\ prioritized_urls' = pri
          /\ fallback_urls' = fallback_urls \o c[2]
          /\ fetch_log' = Append(fetch_log, i + 1)
          /\ ok_log' = Append(ok_log, r.ok)
          /\ i' = k
          /\ pc' = IF r.ok /\ Enough(pri, min_urls) THEN "merge"
                   ELSE IF k >= Len(child_sitemaps) THEN "merge"
                   ELSE "loop"
  /\ UNCHANGED <<config, picked, error, urls, written>>

\* after the loop: merge, dedup, raise on nothing or return the payload
FinishKeepEmpty ==
  /\ pc = "merge"
  /\ urls' = deduped(merged(prioritized_urls, fallback_urls), max_urls)
  /\ pc' = "returned" /\ error' = "none"
  /\ UNCHANGED <<config, picked, loopvars, written>>

Finish ==
  /\ pc = "merge"
  /\ LET d == deduped(merged(prioritized_urls, fallback_urls), max_urls) IN
       IF d = <<>>
         THEN pc' = "failed" /\ error' = "NoCandidateUrls" /\ urls' = <<>>
         ELSE pc' = "returned" /\ error' = "none" /\ urls' = d
  /\ UNCHANGED <<config, picked, loopvars, written>>

\* main: the payload is written only once build_urls has returned
WriteOutputAnyway ==
  /\ pc \in {"returned", "failed"}
  /\ written = FALSE
  /\ written' = TRUE
  /\ pc' = IF pc = "returned" THEN "exit" ELSE pc
  /\ UNCHANGED <<config, picked, loopvars, error, urls>>

WriteOutput ==
  /\ pc = "returned"
  /\ written' = TRUE
  /\ pc' = "exit"
  /\ UNCHANGED <<config, picked, loopvars, error, urls>>

Next == Start \/ FetchChild \/ Finish \/ WriteOutput

Spec == Init /\ [][Next]_vars

\* the program runs one step after the other: a step that can be taken is taken
FairSpec == Spec /\ WF_vars(Next)

\* --------------------------------------------- pick_child_sitemaps on its own
PickEntries ==
  [loc : {Child1, Child2}, lastmod : {NoTime, Aware(1), Aware(2), Naive(1)}]

InitPick ==
  /\ pc = "pick"
  /\ max_children \in MaxChildrenRange
  /\ max_urls = 0 /\ min_urls = 0 /\ within_hours = 0 /\ now = 0
  /\ index_entries \in SeqsUpTo(PickEntries, MaxPickLen)
  /\ Blanks

Pick ==
  /\ pc = "pick"
  /\ IF index_entries # <<>> /\ SortRaises(index_entries)
       THEN /\ pc' = "failed" /\ error' = "TypeError"
            /\ UNCHANGED <<selected, child_sitemaps>>
       ELSE \E sel \in pick_selected(index_entries, max_children) :
              /\ selected' = sel
              /\ child_sitemaps' = LocsOf(index_entries, sel)
              /\ pc' = "picked" /\ error' = "none"
  /\ UNCHANGED <<config, index_entries, loopvars, urls, written>>

NextPick == Pick

SpecPick == InitPick /\ [][NextPick]_vars

\* ------------------------------------------------------------------ claims
Returned == pc \in {"returned", "exit"}
Ended == pc \in {"returned", "exit", "failed"}
LoopLeft == fetch_log # <<>> /\ pc \notin {"loop"}
Min(a, b) == IF a <= b THEN a ELSE b
Last(s) == s[Len(s)]
NoDuplicates(s) == \A a, b \in 1..Len(s) : s[a] = s[b] => a = b
FirstIndex(s, u) == CHOOSE k \in 1..Len(s) : s[k] = u /\ \A j \in 1..(k - 1) : s[j] # u
DistinctFresh == Cardinality(Range(prioritized_urls))
StopHolds == ok_log # <<>> /\ Last(ok_log) /\ DistinctFresh >= min_urls

\* C1: a returned urls list has at most max_urls entries, for every integer
\* max_urls.  The dedup loop tests the length only after it has appended, so
\* with max_urls <= 0 one URL is returned.
C1_AtMostMaxUrls == Returned => Len(urls) <= max_urls

\* C2: a returned urls list holds no string twice.
C2_NoDuplicateUrls == Returned => NoDuplicates(urls)

C2_Witness ==
  /\ Returned
  /\ Len(urls) = 2
  /\ \E a, b \in 1..Len(prioritized_urls) : a # b /\ prioritized_urls[a] = prioritized_urls[b]
  /\ Range(prioritized_urls) \cap Range(fallback_urls) # {}
  /\ Len(fetch_log) = 2

\* C3: a child whose fetch, parse or extraction fails adds nothing to either
\* accumulator, does not end the run, and the loop goes on with the next
\* selected child when there is one.
C3_FailedChildSkipped ==
  [][(Len(ok_log') = Len(ok_log) + 1 /\ ~Last(ok_log'))
       => /\ prioritized_urls' = prioritized_urls
          /\ fallback_urls' = fallback_urls
          /\ error' = "none"
          /\ pc' \in {"loop", "merge"}
          /\ (Len(fetch_log') < Len(child_sitemaps) => pc' = "loop" /\ i' = i + 1)
          /\ (Len(fetch_log') >= Len(child_sitemaps) => pc' = "merge")]_vars

C3_Witness ==
  /\ ok_log = <<TRUE, FALSE>>
  /\ prioritized_urls = <<UrlA>>
  /\ fallback_urls = <<UrlB>>
  /\ pc = "exit"
  /\ urls = <<UrlA, UrlB>>

\* C4: once a child has been extracted and the fresh list holds at least
\* min_urls distinct URLs, no further child is fetched; and the loop is left
\* only then or when every selected child has been tried.
C4_EarlyStop ==
  /\ [][StopHolds => fetch_log' = fetch_log]_vars
  /\ [](LoopLeft => StopHolds \/ Len(fetch_log) = Len(child_sitemaps))

C4_Witness ==
  /\ Len(child_sitemaps) = 2
  /\ fetch_log = <<1>>
  /\ min_urls = 2
  /\ DistinctFresh = 2
  /\ pc = "exit"

\* C5: an index that cannot be fetched or parsed, or that yields no entry,
\* makes the run fail before any child is fetched: nothing is returned and
\* nothing is written.
IndexUnusable ==
  \/ error = "IndexError"
  \/ pc # "start" /\ index_entries = <<>>

C5_IndexFailureIsFatal ==
  IndexUnusable =>
    /\ pc = "failed"
    /\ error \in {"IndexError", "NoChildSitemaps"}
    /\ fetch_log = <<>>
    /\ urls = <<>>
    /\ written = FALSE

C5_Witness ==
  /\ pc = "failed"
  /\ error = "NoChildSitemaps"
  /\ index_entries = <<>>
  /\ max_children > 0

\* C6: when the loop ends with nothing in either accumulator the run fails
\* with the 'no candidate URLs' error, so a returned urls list is never empty.
C6_EmptyResultIsFatal ==
  /\ Returned => urls # <<>>
  /\ (Ended /\ fetch_log # <<>> /\ prioritized_urls = <<>> /\ fallback_urls = <<>>)
       => pc = "failed" /\ error = "NoCandidateUrls"

C6_Witness ==
  /\ pc = "failed"
  /\ error = "NoCandidateUrls"
  /\ ok_log = <<TRUE, FALSE>>

C8_EveryUrlHasMarker == Returned => \A k \in 1..Len(urls) : HasMarker(urls[k])

C8_Witness ==
  /\ Returned
  /\ Len(urls) = 2
  /\ Len(fetch_log) = 1

\* C9: pick_child_sitemaps returns min(max_children, size of the pool)
\* locations, each the location of a distinct entry of the pool, the pool
\* being the first 2 * max_children entries of the timed entries by lastmod
\* descending (ties in index order) followed by the untimed entries.
Before(p, q) ==
  LET a == index_entries[p].lastmod
      b == index_entries[q].lastmod
  IN \/ a.kind # "none" /\ b.kind = "none"
     \/ a.kind # "none" /\ b.kind # "none" /\ (a.t > b.t \/ (a.t = b.t /\ p < q))
     \/ a.kind = "none" /\ b.kind = "none" /\ p < q

Pool ==
  {p \in 1..Len(index_entries) :
     Cardinality({q \in 1..Len(index_entries) : Before(q, p)}) < 2 * max_children}

C9_SelectionFromPool ==
  pc = "picked" =>
    /\ Len(child_sitemaps) = Min(max_children, Cardinality(Pool))
    /\ Len(child_sitemaps) <= max_children
    /\ Len(selected) = Len(child_sitemaps)
    /\ NoDuplicates(selected)
    /\ \A k \in 1..Len(selected) :
         selected[k] \in Pool /\ child_sitemaps[k] = index_entries[selected[k]].loc

\* C9 for a limit that is not negative
C9_NonNegativeLimit == max_children >= 0 => C9_SelectionFromPool

\* a negative limit that selects a child all the same
C9_NegativeLimitSelects ==
  pc = "picked" /\ max_children < 0 /\ child_sitemaps # <<>>

\* C10: children are fetched in selection order, each position at most once,
\* and the run ends in a returned result, in one of the two RuntimeErrors, or
\* in an exception raised while the index is loaded or ordered.
FetchedInOrder ==
  /\ Len(fetch_log) <= Len(child_sitemaps)
  /\ Len(ok_log) = Len(fetch_log)
  /\ \A k \in 1..Len(fetch_log) : fetch_log[k] = k

OutcomeKnown ==
  /\ pc = "failed" =>
       error \in {"NoChildSitemaps", "NoCandidateUrls", "IndexError", "TypeError"}
  /\ Returned => error = "none"

C10_LinearRun == [](FetchedInOrder /\ OutcomeKnown) /\ <>Ended

C10_Witness ==
  /\ pc = "failed"
  /\ error = "NoCandidateUrls"
  /\ fetch_log = <<1, 2>>
  /\ ok_log = <<FALSE, FALSE>>

\* C10 as first stated: a run that fails fails with one of the two RuntimeErrors
C10_ThreeOutcomes ==
  pc = "failed" => error \in {"NoChildSitemaps", "NoCandidateUrls"}

====
